---------------------------- MODULE Spec2Model ----------------------------
(***************************************************************************)
(* Metadata manager (ingestion ledger + watermark files) of                *)
(* src/storage/metadata_manager.py and the landing -> bronze ingestion     *)
(* loop of scripts/ingestion/landing_to_bronze.py.                         *)
(*                                                                         *)
(* Dates are 'YYYY-MM-DD' strings in the code and are only ever compared   *)
(* with <, <=, > and max(); for zero-padded ISO dates the lexicographic    *)
(* order is the calendar order, so a date is modelled by its day number.   *)
(* The 'timestamp' and 'statistics' fields of a record are not read by any *)
(* modelled operation and are left out of the record.                      *)
(***************************************************************************)
EXTENDS Integers, Sequences, FiniteSets, TLC

\* ---- bounds of the model ------------------------------------------------
MaxDate == 2
MaxRuns == 2
MaxApiCalls == 2
MaxExpected == 2
MaxFaults == 1
NumWorkers == 2
MaxMonth == 2
MaxRows == 2
MaxDownloads == 2
MaxFiles == 2
MaxExtracts == 2
MaxKey == 2
MaxStmtRows == 2
MaxReported == 3
MaxAmount == 1
MaxPeriods == 5
\* rows of the corporate actions table, event dates 1..MaxEventDate, calls of
\* write_partitioned_silver on the same table
MaxActions == 2
MaxEventDate == 2
MaxWrites == 2
\* rows of the flattened fundamentals table, fiscal years 1..MaxFiscalYear
MaxWideRows == 2
MaxFiscalYear == 2
\* days are numbered from 1 (2020-01-01) to MaxRangeDay; --chunk-months
MaxRangeDay == 64
MaxChunkMonths == 1
\* records of a statement batch
MaxBatchRows == 2
\* months per data type in the monthly batch driver
MaxBatchMonths == 2

\* ---- values ---------------------------------------------------------------
\* Python None for a symbol, layer, status or error; for an optional date
None == "None"
NoDate == 0

Dates == 1..MaxDate
Symbols == {None, "AAPL"}
DataTypes == {"stocks_daily", "options_daily"}
LayerNames == <<"landing", "bronze", "silver", "gold">>
Layers == {LayerNames[n] : n \in 1..Len(LayerNames)}
\* layers the callers of this repository write to
CallerLayers == {"bronze", "silver"}
DefaultLayer == "bronze"
Statuses == {"success", "failed", "skipped"}
RunDataType == "stocks_daily"
NonSuccessError == "Ingestion returned non-success status"
ExceptionError == "str(e)"

VARIABLES
    ledger,          \* metadata files: path -> record | NoFile
    wmfile,          \* watermark files: path -> date | None
    bronze,          \* bronze artifacts of RunDataType: date -> id of the run that wrote it, 0 = none
    landing,         \* dates that have a landing file for RunDataType
    storage,         \* "up" | "down": reachability of the metadata directory
    pc,              \* position of process_landing_to_bronze
    incremental, start_date, end_date,
    landing_files,   \* sorted candidate units of the run
    i,               \* loop index (1-based)
    last_watermark,
    result,          \* status returned by ingest_date for the current unit
    files_processed,
    summary,         \* return value of the last run
    exit_code,       \* exit status of the command, NoExit while it runs
    ret,             \* the last metadata-manager write made outside a run
    outcome,         \* history: what happened to each unit in the current run
    fetches,         \* history: units fetched (landing file read) in the current run
    storeErr,        \* history: a metadata call raised during the current run
    bronzeAtStart,   \* history: bronze when the current run started
    prev,            \* history: the previous run, if nothing touched the store since
    wmAsc,           \* history: set_watermark calls per watermark file were ascending
    runs, apiCalls, faults,  \* history: counters that bound the model
    wk,              \* concurrent runs: worker -> position and local variables
    parts,           \* downloader: partition file (month, ticker) -> rows, <<>> = no file
    dl,              \* history: downloads made, the first one and the files it left
    corpus,          \* schema extractor: the bronze statement directories and their files
    extractor,       \* the FundamentalsSchemaExtractor object: column_stats, schemas
    unified,         \* history: extractions made, the results of the last two
    statements,      \* flattener: the bronze statement rows of one ticker, per type
    merged,          \* the table _flatten_ticker returned
    filing,          \* ratios: the metric columns of one row of the combined table
    ratios,          \* the ratio columns _calculate_financial_ratios added to the row
    combined,        \* growth: the rows of the combined table of all tickers
    growth,          \* the sorted table and the growth columns _calculate_growth_rates added
    combined_df,     \* the unified corporate actions table, a set of rows
    silver,          \* partition directory -> data.parquet
    writer,          \* position of write_partitioned_silver, its stats, the files before the call
    wide_df,         \* the flattened fundamentals table, a sequence of rows
    fundamentals_wide, \* partition directory -> data.parquet
    saver,           \* calls of _save_to_silver made, the files before the last call
    range_args,      \* start_date, end_date and chunk_months of the call
    date_ranges,     \* the list generate_date_ranges returned
    pool,            \* work items of the executor, their state, the rows downloaded
    procs,           \* worker process -> its position in process_range_wrapper
    short_files,     \* partition file -> rows
    progress_file,   \* content of data/short_data_progress.json
    batch,           \* the statement batch handed to _unnest_financials
    unnested,        \* what _unnest_financials returned
    driver           \* position, counters and exit code of ingest_batch_streaming.main

vars == <<ledger, wmfile, bronze, landing, storage, pc, incremental, start_date,
          end_date, landing_files, i, last_watermark, result, files_processed,
          summary, exit_code, ret, outcome, fetches, storeErr, bronzeAtStart, prev,
          wmAsc, runs, apiCalls, faults, wk, parts, dl, corpus, extractor, unified,
          statements, merged,
          filing, ratios,
          combined, growth,
          combined_df, silver, writer,
          wide_df, fundamentals_wide, saver,
          range_args, date_ranges,
          pool, procs, short_files, progress_file,
          batch, unnested,
          driver>>

\* state of the metadata manager and of the single ingestion run
coreVars == <<ledger, wmfile, bronze, landing, storage, pc, incremental, start_date,
              end_date, landing_files, i, last_watermark, result, files_processed,
              summary, exit_code, ret, outcome, fetches, storeErr, bronzeAtStart,
              prev, wmAsc, runs, apiCalls, faults>>

\* state of the fundamentals / ratios downloader
downloadVars == <<parts, dl>>

\* state of the schema extractor
schemaVars == <<corpus, extractor, unified>>

\* state of the programs other than the metadata manager and the single run
\* state of the statement merge of one ticker
flattenVars == <<statements, merged>>

\* state of the ratio calculation
ratioVars == <<filing, ratios>>

\* state of the growth-rate calculation
growthVars == <<combined, growth>>

\* state of the corporate actions partition writer
writerVars == <<combined_df, silver, writer>>

\* state of the flattened fundamentals partition writer
saverVars == <<wide_df, fundamentals_wide, saver>>

\* state of the date-range chunking
rangeVars == <<range_args, date_ranges>>

\* state of the parallel short-data download
shortVars == <<pool, procs, short_files, progress_file>>

\* state of the struct flattener
unnestVars == <<batch, unnested>>

\* state of the monthly batch ingestion driver
batchVars == <<driver>>

otherVars == <<wk, downloadVars, schemaVars, flattenVars, ratioVars, growthVars, writerVars, saverVars, rangeVars, shortVars, unnestVars, batchVars>>

runVars == <<incremental, start_date, end_date, landing_files, i, last_watermark,
             result, files_processed, outcome, fetches, storeErr, bronzeAtStart>>

\* ---- sequences ------------------------------------------------------------
Range(s) == {s[n] : n \in 1..Len(s)}

Max(S) == CHOOSE x \in S : \A y \in S : y <= x

RECURSIVE InsertSorted(_, _)
InsertSorted(x, s) ==
    IF s = <<>> THEN <<x>>
    ELSE IF x < Head(s) THEN <<x>> \o s
    ELSE <<Head(s)>> \o InsertSorted(x, Tail(s))

\* sorted(list) on dates; stable, keeps duplicates
RECURSIVE sorted(_)
sorted(s) == IF s = <<>> THEN <<>> ELSE InsertSorted(s[Len(s)], sorted(SubSeq(s, 1, Len(s) - 1)))

\* ---- paths ----------------------------------------------------------------
\* metadata_root/layer/data_type/YYYY/MM/date[_symbol].json
get_metadata_file(data_type, date, symbol, layer) == <<layer, data_type, date, symbol>>

\* metadata_root/layer/data_type/watermark[_symbol].json
get_watermark_file(data_type, symbol, layer) == <<layer, data_type, symbol>>

MetadataFiles == {get_metadata_file(dt, d, s, l) : dt \in DataTypes, d \in Dates, s \in Symbols, l \in Layers}
WatermarkFiles == {get_watermark_file(dt, s, l) : dt \in DataTypes, s \in Symbols, l \in Layers}

Record(data_type, date, status, symbol, error, layer) ==
    [data_type |-> data_type, date |-> date, symbol |-> symbol, status |-> status,
     layer |-> layer, error |-> error]

\* content of a path at which no file exists
NoFile == Record(None, NoDate, "NoFile", None, None, None)

\* an operation either raises or returns a value
Raised == [raised |-> TRUE, value |-> <<>>]
Return(v) == [raised |-> FALSE, value |-> v]

\* ---- list_ingestions ------------------------------------------------------
LayerIndex(l) == CHOOSE n \in 1..Len(LayerNames) : LayerNames[n] = l

\* directories searched: the given layer, or all four layers in LayerNames order
SearchDirs(layer) == IF layer # None THEN {layer} ELSE Layers

\* files of the searched directories whose record passes the filters
FilteredFiles(data_type, start, end, status, layer) ==
    {f \in MetadataFiles :
        /\ f[1] \in SearchDirs(layer)
        /\ f[2] = data_type
        /\ ledger[f] # NoFile
        /\ ~(start # NoDate /\ ledger[f].date < start)
        /\ ~(end # NoDate /\ ledger[f].date > end)
        /\ ~(status # None /\ ledger[f].status # status)}

\* records.sort(key=(date, symbol)): comparing the keys of two records of the
\* same date compares None with a str when exactly one of them has a symbol,
\* which raises TypeError
SortRaises(files) ==
    \E f, g \in files :
        /\ ledger[f].date = ledger[g].date
        /\ (ledger[f].symbol = None) # (ledger[g].symbol = None)

\* order of the sort when it does not raise: by date; records of one date then
\* have the same symbol (Symbols holds one ticker) and stay in the order the
\* directories were searched (the sort is stable)
SortsBefore(f, g) ==
    \/ ledger[f].date < ledger[g].date
    \/ /\ ledger[f].date = ledger[g].date
       /\ ledger[f].symbol = ledger[g].symbol
       /\ LayerIndex(f[1]) < LayerIndex(g[1])

RECURSIVE SortedRecords(_)
SortedRecords(files) ==
    IF files = {} THEN <<>>
    ELSE LET f == CHOOSE f \in files : \A g \in files \ {f} : SortsBefore(f, g)
         IN  <<ledger[f]>> \o SortedRecords(files \ {f})

list_ingestions(data_type, start, end, status, layer) ==
    LET files == FilteredFiles(data_type, start, end, status, layer)
    IN  IF storage = "down" \/ SortRaises(files) THEN Raised
        ELSE Return(SortedRecords(files))

\* ---- get_watermark --------------------------------------------------------
\* variant: returns the date stored in the watermark file
get_watermark_FromFile(data_type, symbol, layer) ==
    wmfile[get_watermark_file(data_type, symbol, layer)]

get_watermark(data_type, symbol, layer) ==
    LET listed == list_ingestions(data_type, NoDate, NoDate, "success", layer)
    IN  IF listed.raised THEN NoDate
        ELSE LET records == IF symbol # None
                            THEN SelectSeq(listed.value, LAMBDA r : r.symbol = symbol)
                            ELSE listed.value
             IN  IF records = <<>> THEN NoDate
                 ELSE Max({records[n].date : n \in 1..Len(records)})

\* ---- get_ingestion_status --------------------------------------------------
\* the path is built with the default layer; None (NoFile) if the file does not
\* exist or reading it fails
get_ingestion_status(data_type, date, symbol) ==
    IF storage = "down" THEN NoFile
    ELSE ledger[get_metadata_file(data_type, date, symbol, DefaultLayer)]

\* ---- get_missing_dates ----------------------------------------------------
get_missing_dates(data_type, start, end, expected_dates) ==
    LET listed == list_ingestions(data_type, start, end, "success", None)
    IN  IF listed.raised THEN Raised
        ELSE LET ingested_dates == {listed.value[n].date : n \in 1..Len(listed.value)}
                 missing == SelectSeq(expected_dates, LAMBDA d : d \notin ingested_dates)
             IN  Return(sorted(missing))

\* ---- get_statistics_summary -----------------------------------------------
Count(records, status) == Len(SelectSeq(records, LAMBDA r : r.status = status))

\* skipped counts as successful for the success rate
successful_count(success, skipped) == success + skipped

\* success_rate is the quotient num/den, kept as the pair <<num, den>>; the
\* summary of an empty listing has no success_rate key (<<>>)
get_statistics_summary(data_type, start, end, layer) ==
    LET listed == list_ingestions(data_type, start, end, None, layer)
    IN  IF listed.raised THEN Raised
        ELSE LET records == listed.value
                 total_jobs == Len(records)
                 success == Count(records, "success")
                 failed == Count(records, "failed")
                 skipped == Count(records, "skipped")
             IN  IF records = <<>>
                 THEN Return([total_jobs |-> 0, success |-> 0, failed |-> 0,
                              skipped |-> 0, success_rate |-> <<>>])
                 ELSE Return([total_jobs |-> total_jobs, success |-> success,
                              failed |-> failed, skipped |-> skipped,
                              success_rate |-> <<successful_count(success, skipped), total_jobs>>])

\* ---- writes ---------------------------------------------------------------
\* variant: an existing file is left as the earlier attempt wrote it
record_ingestion_KeepFirst(data_type, date, status, symbol, error, layer) ==
    IF ledger[get_metadata_file(data_type, date, symbol, layer)] # NoFile THEN ledger
    ELSE [ledger EXCEPT ![get_metadata_file(data_type, date, symbol, layer)] =
             Record(data_type, date, status, symbol, error, layer)]

\* open(metadata_file, 'w'); json.dump(record): creates or replaces the file
record_ingestion(data_type, date, status, symbol, error, layer) ==
    [ledger EXCEPT ![get_metadata_file(data_type, date, symbol, layer)] =
        Record(data_type, date, status, symbol, error, layer)]

set_watermark(data_type, date, symbol, layer) ==
    [wmfile EXCEPT ![get_watermark_file(data_type, symbol, layer)] = date]

\* the path is built with the default layer
delete_metadata(data_type, date, symbol) ==
    [ledger EXCEPT ![get_metadata_file(data_type, date, symbol, DefaultLayer)] = NoFile]

\* history: were the dates written to one watermark file ascending so far
NoteSet(data_type, date, symbol, layer) ==
    LET w == get_watermark_file(data_type, symbol, layer)
    IN  [wmAsc EXCEPT ![w] = wmAsc[w] /\ wmfile[w] <= date]

NoCall == [op |-> "none"]
NoPrev == [incremental |-> FALSE, start |-> NoDate, end |-> NoDate, failed |-> FALSE,
           status |-> "none"]
NoSummary == [status |-> "none"]
NoExit == -1

\* ---- FundamentalsDownloader / FinancialRatiosAPIDownloader ------------------
\* A filing date is modelled by its (year, month), numbered 1..MaxMonth; a row
\* of the downloaded frame is [id, filing_date, tickers]: id stands for the
\* statement's payload columns, tickers for the first element of the 'tickers'
\* list. The 'downloaded_at' column (the time of the run) is left out.
Months == 1..MaxMonth
Tickers == {"AAPL", "MSFT"}
DownloadRows == [id : 1..MaxRows, filing_date : Months \cup {NoDate}, tickers : Tickers \cup {None}]

\* frames the API can return for a unit: rows with distinct ids
DownloadFrames ==
    {df \in UNION {[1..n -> DownloadRows] : n \in 1..MaxRows} : \A n \in 1..Len(df) : df[n].id = n}

\* output_dir/statement_type/year=YYYY/month=MM/ticker=SYMBOL.parquet
PartitionFiles == Months \X Tickers

NoDownload == [n |-> 0, df |-> <<>>, after |-> <<>>]

\* ---- FundamentalsSchemaExtractor -------------------------------------------
StatementTypes == {"balance_sheets", "income_statements", "cash_flow"}
Columns == {"assets", "equity"}
Dtypes == {"Float64", "Int64"}

\* the schema of a parquet file: column -> dtype, None for a column it lacks
FileSchemas == [Columns -> Dtypes \cup {None}]
CorpusFiles == [statement_type : StatementTypes, schema : FileSchemas]

\* the bronze tree: the statement directories that exist and the files under
\* them in the order rglob lists them
Corpora ==
    {c \in [dirs : SUBSET StatementTypes,
            files : UNION {[1..n -> CorpusFiles] : n \in 0..MaxFiles}] :
        \A n \in 1..Len(c.files) : c.files[n].statement_type \in c.dirs}

NoCorpus == [dirs |-> {}, files |-> <<>>]

\* defaultdict(lambda: {'count': 0, 'dtypes': set()})
NoStats == [count |-> 0, dtypes |-> {}]

\* self.schemas[statement_type] = {} of __init__
NoSchema == [columns |-> {}, files_scanned |-> 0, extracted |-> FALSE]

NoExtractor == [exists |-> FALSE,
                column_stats |-> [st \in StatementTypes |-> [c \in Columns |-> NoStats]],
                schemas |-> [st \in StatementTypes |-> NoSchema]]

\* on_object: extractions made on the current extractor object
NoExtraction == [n |-> 0, last |-> Raised, before |-> Raised, on_object |-> 0]

\* ---- FundamentalsFlattener: the statements of one ticker ----------------------
\* Within one ticker the natural key (ticker, filing_date, fiscal_year,
\* fiscal_period) is numbered 1..MaxKey; NullKey is a row whose key columns are
\* null. A bronze statement table is the sequence of the keys of its rows; the
\* metric columns of row n are stood for by n, and 0 is a null metric.
Keys == 1..MaxKey
NullKey == 0
StatementTables == UNION {[1..n -> Keys] : n \in 0..MaxStmtRows}

\* _load_statements returns None when the ticker has no file of the type
NoStatements == [bs |-> <<>>, is |-> <<>>, cf |-> <<>>]
NotFlattened == [done |-> FALSE, rows |-> <<>>]
NullRow == [key |-> NullKey, bs |-> 0, is |-> 0, cf |-> 0]

\* ---- FundamentalsFlattener: ratio columns -------------------------------------
\* The metric columns are Float64 (integer columns are cast before the ratios
\* are calculated); a value is null or a number, a quotient is null, a finite
\* quotient num/den, +inf, -inf or NaN.
Metrics == {"is_net_income_loss", "is_revenues", "is_operating_income_loss", "bs_equity",
            "bs_assets", "bs_liabilities", "bs_current_assets", "bs_current_liabilities",
            "bs_inventory"}
Null == [kind |-> "null", v |-> 0]
Num(x) == [kind |-> "finite", v |-> x]
Amounts == {Num(x) : x \in (-MaxAmount)..MaxAmount}

\* the sets of metrics a row can report: at most MaxReported, the others are null
Reported == {S \in SUBSET Metrics : Cardinality(S) <= MaxReported}

NoFiling == [m \in Metrics |-> Null]
NullRatio == [kind |-> "null", num |-> 0, den |-> 0]
NoRatios == [done |-> FALSE, row |-> <<>>]

\* ---- FundamentalsFlattener: growth columns ------------------------------------
\* A row of the combined table is [entity, period]: entity is the ticker whose
\* statements the row was built from, period its filing date numbered
\* 1..MaxPeriods. A row with period NullKey is a row that _flatten_ticker
\* returned with null key columns: its ticker and filing_date columns are null.
\* The metric value of a row is stood for by the row itself.
GrowthRows == [entity : Tickers, period : {NullKey} \cup 1..MaxPeriods]
NoGrowth == [done |-> FALSE, frame |-> <<>>, yoy |-> <<>>, qoq |-> <<>>]
NullGrowth == [kind |-> "null", cur |-> <<>>, prev |-> <<>>]

\* the lookback of the year-over-year and quarter-over-quarter metrics
Lookback == [yoy |-> 4, qoq |-> 1]

\* ---- corporate actions: partitioned silver layer -----------------------------
\* A row of the unified corporate actions table: id tells rows apart (the other
\* columns of the row), ticker is null (None) or a ticker, event_type is the
\* literal the process_* functions put in, event_date the sort key.
EventTypes == {"dividend", "split"}
ActionContents == [ticker : Tickers \cup {None}, event_type : EventTypes,
                   event_date : 1..MaxEventDate]
\* silver_path / "ticker={ticker}" / "event_type={event_type}" / "data.parquet"
PartitionDirs == (Tickers \cup {None}) \X EventTypes
NoParquet == [exists |-> FALSE, rows |-> <<>>]
NoSilver == [p \in PartitionDirs |-> NoParquet]
NoWriteStats == [tickers_written |-> 0, files_written |-> 0, total_records |-> 0]
NoWriter == [loaded |-> FALSE, pc |-> "idle", partitions |-> {}, n |-> 0,
             stats |-> NoWriteStats, before |-> NoSilver]

\* ---- FundamentalsFlattener: partitioned silver layer ---------------------------
\* A row of the flattened table as _save_to_silver partitions it: fiscal_year is
\* null (NullKey) on a row whose key columns are null, fiscal_quarter is the
\* fiscal_period; a row is told apart by its position in the table.
FiscalQuarters == {"Q1", "Q2"}
WideContents == [fiscal_year : {NullKey} \cup 1..MaxFiscalYear, fiscal_quarter : FiscalQuarters]
\* output_dir / "year={year}" / "quarter={quarter}" / "data.parquet"
YearQuarterDirs == ({NullKey} \cup 1..MaxFiscalYear) \X FiscalQuarters
NoWide == [p \in YearQuarterDirs |-> NoParquet]
NoSaver == [loaded |-> FALSE, n |-> 0, before |-> NoWide]

\* ---- batch_load_short_data: date ranges ----------------------------------------
\* timedelta(days=chunk_months * 30)
DaysPerChunkMonth == 30
NoRangeArgs == [start_date |-> 0, end_date |-> 0, chunk_months |-> 0]
NoRanges == [done |-> FALSE, ranges |-> <<>>]

\* ---- batch_load_short_data: parallel download ----------------------------------
\* day 1 is 2020-01-01; last day number of January, February, March 2020
MonthEnds == <<31, 60, 91>>
MonthOf(d) == CHOOSE m \in 1..Len(MonthEnds) :
                 d <= MonthEnds[m] /\ (m = 1 \/ d > MonthEnds[m - 1])
\* --start-date values of the runs: the first and the fifteenth of January
ShortStarts == {1, 15}
ShortTickers == {"AAPL"}
\* output_dir/short_interest/year=2020/month=MM/ticker=SYMBOL.parquet
ShortPartitions == (1..Len(MonthEnds)) \X ShortTickers
\* the progress file: the short_interest_completed list and the failed_ranges keys
NoProgress == [completed |-> <<>>, failed |-> {}]
NoPool == [started |-> FALSE, work_items |-> <<>>, status |-> <<>>, rows |-> {}]
NoProc == [pc |-> "idle", task |-> 0, data |-> NoProgress, df |-> {}, todo |-> {},
           part |-> <<>>, existing |-> <<>>]

\* ---- FundamentalsFlattener: nested financials ----------------------------------
key_cols == {"ticker", "filing_date", "fiscal_year", "fiscal_period"}
\* columns a statement batch has besides the key columns and 'financials'
OtherColumns == {"cik", "company_name"}
Prefixes == {"bs", "is", "cf"}
statement_map == [bs |-> "balance_sheet", is |-> "income_statement",
                  cf |-> "cash_flow_statement"]
StatementKeys == {statement_map[p] : p \in Prefixes}
MetricNames == {"assets", "equity"}
\* a metric field of a statement struct: a struct with a 'value' field or not
MetricKinds == {"absent", "value", "no_value"}
\* A batch: its record count, its other columns, the dtype of 'financials'
\* ("absent" if there is no such column), the statement fields of the struct,
\* and the content of a statement field (all statement fields alike): a struct
\* of metrics or not a struct.
Batches == [rows : 0..MaxBatchRows, others : SUBSET OtherColumns,
            financials : {"absent", "not_struct", "struct"},
            fields : SUBSET StatementKeys,
            statement_is_struct : BOOLEAN, metrics : [MetricNames -> MetricKinds]]
NoBatch == [rows |-> 0, others |-> {}, financials |-> "none", fields |-> {},
            statement_is_struct |-> FALSE, metrics |-> [m \in MetricNames |-> "absent"]]
\* a returned frame: record count, key columns, other columns, metric columns
Frame(rows, keys, others, metrics) ==
    [rows |-> rows, keys |-> keys, others |-> others, metrics |-> metrics]
NotUnnested == [done |-> FALSE, prefix |-> "none", raised |-> FALSE,
                frame |-> Frame(0, {}, {}, {})]

\* ---- ingest_batch_streaming -----------------------------------------------------
\* what subprocess.run of one month does: return code 0, return code not 0,
\* TimeoutExpired after an hour, any other exception
MonthOutcomes == {"returncode_0", "returncode_nonzero", "timeout", "exception"}
\* the months in the order main goes through them: stocks_daily, then options_daily
BatchMonths ==
    [k \in 1..(2 * MaxBatchMonths) |->
        IF k <= MaxBatchMonths THEN [data_type |-> "stocks_daily", month |-> k]
        ELSE [data_type |-> "options_daily", month |-> k - MaxBatchMonths]]
NoDriver == [pc |-> "idle", minute_only |-> FALSE, k |-> 1, outcomes |-> <<>>,
             stocks_daily_success |-> 0, stocks_daily_fail |-> 0,
             options_daily_success |-> 0, options_daily_fail |-> 0, exit_code |-> NoExit]

\* processes that run process_landing_to_bronze at the same time
Workers == 1..NumWorkers
NoWorker == [pc |-> "off", landing_files |-> <<>>, i |-> 0, incremental |-> FALSE,
             last_watermark |-> NoDate, result |-> None]

Init ==
    /\ ledger = [f \in MetadataFiles |-> NoFile]
    /\ wmfile = [w \in WatermarkFiles |-> NoDate]
    /\ bronze = [d \in Dates |-> 0]
    /\ landing = Dates
    /\ storage = "up"
    /\ pc = "idle"
    /\ incremental = FALSE
    /\ start_date = NoDate
    /\ end_date = NoDate
    /\ landing_files = <<>>
    /\ i = 0
    /\ last_watermark = NoDate
    /\ result = None
    /\ files_processed = 0
    /\ summary = NoSummary
    /\ exit_code = NoExit
    /\ ret = NoCall
    /\ outcome = [d \in Dates |-> "none"]
    /\ fetches = 0
    /\ storeErr = FALSE
    /\ bronzeAtStart = [d \in Dates |-> 0]
    /\ prev = NoPrev
    /\ wmAsc = [w \in WatermarkFiles |-> TRUE]
    /\ runs = 0
    /\ apiCalls = 0
    /\ faults = 0
    /\ wk = [w \in Workers |-> NoWorker]
    /\ parts = [k \in PartitionFiles |-> <<>>]
    /\ dl = NoDownload
    /\ corpus = NoCorpus
    /\ extractor = NoExtractor
    /\ unified = NoExtraction
    /\ statements = NoStatements
    /\ merged = NotFlattened
    /\ filing = NoFiling
    /\ ratios = NoRatios
    /\ combined = {}
    /\ growth = NoGrowth
    /\ combined_df = {}
    /\ silver = NoSilver
    /\ writer = NoWriter
    /\ wide_df = <<>>
    /\ fundamentals_wide = NoWide
    /\ saver = NoSaver
    /\ range_args = NoRangeArgs
    /\ date_ranges = NoRanges
    /\ pool = NoPool
    /\ procs = [w \in Workers |-> NoProc]
    /\ short_files = [p \in ShortPartitions |-> <<>>]
    /\ progress_file = NoProgress
    /\ batch = NoBatch
    /\ unnested = NotUnnested
    /\ driver = NoDriver

\* ---- calls of the metadata manager made by other callers ------------------
ApiUnchanged ==
    UNCHANGED <<bronze, landing, storage, pc, runVars, summary, exit_code, runs, faults,
                otherVars>>

\* an error message accompanies a failed status
ErrorOf(status) == IF status = "failed" THEN ExceptionError ELSE None

RecordIngestion(data_type, date, status, symbol, layer) ==
    /\ pc = "idle"
    /\ apiCalls < MaxApiCalls
    /\ apiCalls' = apiCalls + 1
    /\ ledger' = record_ingestion(data_type, date, status, symbol, ErrorOf(status), layer)
    /\ ret' = [op |-> "record_ingestion",
               file |-> get_metadata_file(data_type, date, symbol, layer),
               status |-> status,
               before |-> ledger[get_metadata_file(data_type, date, symbol, layer)]]
    /\ prev' = NoPrev
    /\ UNCHANGED <<wmfile, wmAsc>>
    /\ ApiUnchanged

SetWatermark(data_type, date, symbol, layer) ==
    /\ pc = "idle"
    /\ apiCalls < MaxApiCalls
    /\ apiCalls' = apiCalls + 1
    /\ wmfile' = set_watermark(data_type, date, symbol, layer)
    /\ wmAsc' = NoteSet(data_type, date, symbol, layer)
    /\ ret' = [op |-> "set_watermark", file |-> get_watermark_file(data_type, symbol, layer)]
    /\ prev' = NoPrev
    /\ UNCHANGED ledger
    /\ ApiUnchanged

DeleteMetadata(data_type, date, symbol) ==
    /\ pc = "idle"
    /\ apiCalls < MaxApiCalls
    /\ apiCalls' = apiCalls + 1
    /\ ledger' = delete_metadata(data_type, date, symbol)
    /\ ret' = [op |-> "delete_metadata",
               file |-> get_metadata_file(data_type, date, symbol, DefaultLayer)]
    /\ prev' = NoPrev
    /\ UNCHANGED <<wmfile, wmAsc>>
    /\ ApiUnchanged

OptDates == Dates \cup {NoDate}
OptLayers == CallerLayers \cup {None}
ExpectedLists == UNION {[1..n -> Dates] : n \in 0..MaxExpected}

NextApi ==
    \/ \E dt \in DataTypes, d \in Dates, st \in Statuses, s \in Symbols, l \in CallerLayers :
          RecordIngestion(dt, d, st, s, l)
    \/ \E dt \in DataTypes, d \in Dates, s \in Symbols, l \in CallerLayers :
          SetWatermark(dt, d, s, l)
    \/ \E dt \in DataTypes, d \in Dates, s \in Symbols : DeleteMetadata(dt, d, s)

SpecApi == Init /\ [][NextApi]_vars

\* ---- get_landing_files ----------------------------------------------------
\* walks the days from start to end and keeps those that have a landing file
RECURSIVE WalkDays(_, _)
WalkDays(current, end) ==
    IF current > end THEN <<>>
    ELSE (IF current \in landing THEN <<current>> ELSE <<>>) \o WalkDays(current + 1, end)

get_landing_files(start, end) == sorted(WalkDays(start, end))

\* ---- process_landing_to_bronze ---------------------------------------------
\* outcomes of reading the landing file and calling ingestor.ingest_date:
\* status 'success', status 'skipped', any other result, or an exception
IngestResults == {"success", "skipped", "failed", "raised"}

file_date == landing_files[i]

InLoop == pc = "loop" /\ i <= Len(landing_files)

SkipByWatermark == incremental /\ last_watermark # NoDate /\ file_date <= last_watermark

RunUnchanged == UNCHANGED <<landing, ret, apiCalls, prev, faults, exit_code, otherVars>>

StartRun(inc, start, end) ==
    /\ pc \in {"idle", "done"}
    /\ runs < MaxRuns
    /\ runs' = runs + 1
    /\ incremental' = inc
    /\ start_date' = start
    /\ end_date' = end
    /\ landing_files' = get_landing_files(start, end)
    /\ IF landing_files' = <<>>
       THEN /\ summary' = [status |-> "no_data", files_available |-> 0, files_processed |-> 0]
            /\ pc' = "done"
            /\ last_watermark' = NoDate
            /\ storeErr' = FALSE
       ELSE /\ summary' = NoSummary
            /\ pc' = "loop"
            /\ last_watermark' = IF inc THEN get_watermark(RunDataType, None, DefaultLayer)
                                 ELSE NoDate
            /\ storeErr' = (inc /\ storage = "down")
    /\ i' = 1
    /\ result' = None
    /\ files_processed' = 0
    /\ outcome' = [d \in Dates |-> "none"]
    /\ fetches' = 0
    /\ bronzeAtStart' = bronze
    /\ exit_code' = NoExit
    /\ prev' = IF pc = "done"
               THEN [incremental |-> incremental, start |-> start_date, end |-> end_date,
                     failed |-> \E d \in Dates : outcome[d] = "failed",
                     status |-> summary.status]
               ELSE NoPrev
    /\ UNCHANGED <<ledger, wmfile, wmAsc, bronze, landing, storage, ret, apiCalls, faults,
                   otherVars>>

\* variant: the skip writes a 'skipped' entry for the unit
SkipUnit_RecordsSkipped ==
    /\ InLoop
    /\ SkipByWatermark
    /\ i' = i + 1
    /\ outcome' = [outcome EXCEPT ![file_date] = "below_watermark"]
    /\ ledger' = record_ingestion(RunDataType, file_date, "skipped", None, None, DefaultLayer)
    /\ UNCHANGED <<wmfile, wmAsc, bronze, storage, pc, incremental, start_date,
                   end_date, landing_files, last_watermark, result, files_processed,
                   summary, fetches, storeErr, bronzeAtStart, runs>>
    /\ RunUnchanged

\* 'continue' of a unit at or below the watermark read when the run started
SkipUnit ==
    /\ InLoop
    /\ SkipByWatermark
    /\ i' = i + 1
    /\ outcome' = [outcome EXCEPT ![file_date] = "below_watermark"]
    /\ UNCHANGED <<ledger, wmfile, wmAsc, bronze, storage, pc, incremental, start_date,
                   end_date, landing_files, last_watermark, result, files_processed,
                   summary, fetches, storeErr, bronzeAtStart, runs>>
    /\ RunUnchanged

\* the bronze artifact a successful ingest_date leaves behind
WriteArtifact(date) == [bronze EXCEPT ![date] = runs]

\* gzip.open(...).read() and ingestor.ingest_date(date, data)
IngestUnit(res) ==
    /\ InLoop
    /\ ~SkipByWatermark
    /\ fetches' = fetches + 1
    /\ bronze' = IF res = "success" THEN WriteArtifact(file_date) ELSE bronze
    /\ result' = res
    /\ pc' = CASE res \in {"success", "skipped"} -> "record"
               [] res = "failed" -> "record_failed"
               [] OTHER -> "except"
    /\ UNCHANGED <<ledger, wmfile, wmAsc, storage, incremental, start_date, end_date,
                   landing_files, i, last_watermark, files_processed, summary, outcome,
                   storeErr, bronzeAtStart, runs>>
    /\ RunUnchanged

\* variant: a failed write of the ledger entry is ignored and the loop body goes
\* on to the watermark update
RecordResult_IgnoreError ==
    /\ pc = "record"
    /\ files_processed' = files_processed + 1
    /\ IF storage = "up"
       THEN /\ ledger' = record_ingestion(RunDataType, file_date, result, None, None, DefaultLayer)
            /\ UNCHANGED storeErr
       ELSE /\ storeErr' = TRUE
            /\ UNCHANGED ledger
    /\ pc' = "set_watermark"
    /\ UNCHANGED <<wmfile, wmAsc, bronze, storage, incremental, start_date, end_date,
                   landing_files, i, last_watermark, result, summary, outcome, fetches,
                   bronzeAtStart, runs>>
    /\ RunUnchanged

\* files_processed += 1; metadata_manager.record_ingestion(status=result status)
RecordResult ==
    /\ pc = "record"
    /\ files_processed' = files_processed + 1
    /\ IF storage = "up"
       THEN /\ ledger' = record_ingestion(RunDataType, file_date, result, None, None, DefaultLayer)
            /\ pc' = "set_watermark"
            /\ UNCHANGED storeErr
       ELSE /\ pc' = "except"
            /\ storeErr' = TRUE
            /\ UNCHANGED ledger
    /\ UNCHANGED <<wmfile, wmAsc, bronze, storage, incremental, start_date, end_date,
                   landing_files, i, last_watermark, result, summary, outcome, fetches,
                   bronzeAtStart, runs>>
    /\ RunUnchanged

\* metadata_manager.set_watermark(date=file_date), end of the loop body
UpdateWatermark ==
    /\ pc = "set_watermark"
    /\ IF storage = "up"
       THEN /\ wmfile' = set_watermark(RunDataType, file_date, None, DefaultLayer)
            /\ wmAsc' = NoteSet(RunDataType, file_date, None, DefaultLayer)
            /\ i' = i + 1
            /\ outcome' = [outcome EXCEPT ![file_date] = result]
            /\ pc' = "loop"
            /\ UNCHANGED storeErr
       ELSE /\ pc' = "except"
            /\ storeErr' = TRUE
            /\ UNCHANGED <<wmfile, wmAsc, i, outcome>>
    /\ UNCHANGED <<ledger, bronze, storage, incremental, start_date, end_date,
                   landing_files, last_watermark, result, files_processed, summary,
                   fetches, bronzeAtStart, runs>>
    /\ RunUnchanged

\* variant: the else branch only logs the failure
RecordFailure_NoEntry ==
    /\ pc = "record_failed"
    /\ i' = i + 1
    /\ outcome' = [outcome EXCEPT ![file_date] = "failed"]
    /\ pc' = "loop"
    /\ UNCHANGED <<ledger, storeErr>>
    /\ UNCHANGED <<wmfile, wmAsc, bronze, storage, incremental, start_date, end_date,
                   landing_files, last_watermark, result, files_processed, summary,
                   fetches, bronzeAtStart, runs>>
    /\ RunUnchanged

\* else branch: record_ingestion(status='failed', error=NonSuccessError)
RecordFailure ==
    /\ pc = "record_failed"
    /\ IF storage = "up"
       THEN /\ ledger' = record_ingestion(RunDataType, file_date, "failed", None,
                                          NonSuccessError, DefaultLayer)
            /\ i' = i + 1
            /\ outcome' = [outcome EXCEPT ![file_date] = "failed"]
            /\ pc' = "loop"
            /\ UNCHANGED storeErr
       ELSE /\ pc' = "except"
            /\ storeErr' = TRUE
            /\ UNCHANGED <<ledger, i, outcome>>
    /\ UNCHANGED <<wmfile, wmAsc, bronze, storage, incremental, start_date, end_date,
                   landing_files, last_watermark, result, files_processed, summary,
                   fetches, bronzeAtStart, runs>>
    /\ RunUnchanged

\* variant: a failure to write the 'failed' entry is re-raised and ends the run
HandleException_Reraise ==
    /\ pc = "except"
    /\ IF storage = "up"
       THEN /\ ledger' = record_ingestion(RunDataType, file_date, "failed", None,
                                          ExceptionError, DefaultLayer)
            /\ i' = i + 1
            /\ outcome' = [outcome EXCEPT ![file_date] = "failed"]
            /\ pc' = "loop"
            /\ UNCHANGED <<storeErr, summary>>
       ELSE /\ storeErr' = TRUE
            /\ summary' = [status |-> "error", files_available |-> Len(landing_files),
                           files_processed |-> files_processed]
            /\ pc' = "done"
            /\ UNCHANGED <<ledger, i, outcome>>
    /\ UNCHANGED <<wmfile, wmAsc, bronze, storage, incremental, start_date, end_date,
                   landing_files, last_watermark, result, files_processed,
                   fetches, bronzeAtStart, runs>>
    /\ RunUnchanged

\* except Exception: try record_ingestion(status='failed', error=str(e))
\* except: pass; continue
HandleException ==
    /\ pc = "except"
    /\ IF storage = "up"
       THEN /\ ledger' = record_ingestion(RunDataType, file_date, "failed", None,
                                          ExceptionError, DefaultLayer)
            /\ UNCHANGED storeErr
       ELSE /\ storeErr' = TRUE
            /\ UNCHANGED ledger
    /\ i' = i + 1
    /\ outcome' = [outcome EXCEPT ![file_date] = "failed"]
    /\ pc' = "loop"
    /\ UNCHANGED <<wmfile, wmAsc, bronze, storage, incremental, start_date, end_date,
                   landing_files, last_watermark, result, files_processed, summary,
                   fetches, bronzeAtStart, runs>>
    /\ RunUnchanged

\* the summary returned after the loop
Finish ==
    /\ pc = "loop"
    /\ i > Len(landing_files)
    /\ summary' = [status |-> "completed", files_available |-> Len(landing_files),
                   files_processed |-> files_processed]
    /\ pc' = "done"
    /\ UNCHANGED <<ledger, wmfile, wmAsc, bronze, storage, incremental, start_date,
                   end_date, landing_files, i, last_watermark, result, files_processed,
                   outcome, fetches, storeErr, bronzeAtStart, runs>>
    /\ RunUnchanged

\* main: the overall summary is logged and the function returns, so the
\* interpreter exits with status 0; no path of main calls sys.exit
MainReturns ==
    /\ pc = "done"
    /\ exit_code = NoExit
    /\ exit_code' = 0
    /\ UNCHANGED <<ledger, wmfile, wmAsc, bronze, storage, pc, runVars, summary, runs>>
    /\ UNCHANGED <<landing, ret, apiCalls, prev, faults, otherVars>>

\* ---- the metadata directory becomes unreachable / reachable again ----------
StorageFails ==
    /\ storage = "up"
    /\ faults < MaxFaults
    /\ faults' = faults + 1
    /\ storage' = "down"
    /\ UNCHANGED <<ledger, wmfile, wmAsc, bronze, pc, runVars, summary, runs>>
    /\ UNCHANGED <<landing, ret, apiCalls, prev, exit_code, otherVars>>

StorageRecovers ==
    /\ storage = "down"
    /\ storage' = "up"
    /\ UNCHANGED <<ledger, wmfile, wmAsc, bronze, pc, runVars, summary, runs>>
    /\ RunUnchanged

Next ==
    \/ \E inc \in BOOLEAN, a \in Dates, b \in Dates : StartRun(inc, a, b)
    \/ SkipUnit
    \/ \E res \in IngestResults : IngestUnit(res)
    \/ RecordResult
    \/ UpdateWatermark
    \/ RecordFailure
    \/ HandleException
    \/ Finish
    \/ MainReturns

NextIO == Next \/ StorageFails \/ StorageRecovers

\* ingestion runs, one after the other, with a reachable metadata directory
Spec == Init /\ [][Next]_vars

\* ingestion runs during which the metadata directory may become unreachable
SpecIO == Init /\ [][NextIO]_vars

\* ---- an operator interrupt during process_landing_to_bronze ------------------
\* main() is called at module level with no handler for KeyboardInterrupt: the
\* interpreter ends with the status of a process stopped by SIGINT (128 + 2)
InterruptExit == 130

\* KeyboardInterrupt between two steps of the loop: 'except Exception' does not
\* catch it, the function is left without a summary and the process ends
KeyboardInterrupt ==
    /\ \/ InLoop
       \/ pc \in {"record", "set_watermark", "record_failed", "except"}
    /\ pc' = "done"
    /\ summary' = [status |-> "interrupted", files_available |-> Len(landing_files),
                   files_processed |-> files_processed]
    /\ exit_code' = InterruptExit
    /\ UNCHANGED <<ledger, wmfile, wmAsc, bronze, storage, runVars, runs>>
    /\ UNCHANGED <<landing, ret, apiCalls, prev, faults, otherVars>>

\* KeyboardInterrupt inside the try of the except branch: the bare 'except: pass'
\* catches it, the 'failed' entry is not written and the loop continues
KeyboardInterruptInHandler ==
    /\ pc = "except"
    /\ i' = i + 1
    /\ outcome' = [outcome EXCEPT ![file_date] = "failed"]
    /\ pc' = "loop"
    /\ UNCHANGED <<ledger, wmfile, wmAsc, bronze, storage, incremental, start_date, end_date,
                   landing_files, last_watermark, result, files_processed, summary,
                   fetches, storeErr, bronzeAtStart, runs>>
    /\ RunUnchanged

NextInterrupt == Next \/ KeyboardInterrupt \/ KeyboardInterruptInHandler

\* ingestion runs that the operator may interrupt at any step
SpecInterrupt == Init /\ [][NextInterrupt]_vars

\* ---- concurrent runs of process_landing_to_bronze ---------------------------
\* Several processes run the loop at the same time on the same metadata root,
\* each over its own date range; the calls of the metadata manager are the
\* steps that interleave.
WorkerUnits(w) == Range(wk[w].landing_files)

WorkerDate(w) == wk[w].landing_files[wk[w].i]

WorkerInLoop(w) == wk[w].pc = "loop" /\ wk[w].i <= Len(wk[w].landing_files)

WorkerSkipByWatermark(w) ==
    /\ wk[w].incremental
    /\ wk[w].last_watermark # NoDate
    /\ WorkerDate(w) <= wk[w].last_watermark

WorkerUnchanged ==
    UNCHANGED <<landing, storage, pc, incremental, start_date, end_date, landing_files, i,
                last_watermark, result, files_processed, fetches, storeErr, bronzeAtStart,
                summary, exit_code, ret, prev, runs, apiCalls, faults, downloadVars,
                schemaVars, flattenVars, ratioVars, growthVars, writerVars, saverVars, rangeVars, shortVars, unnestVars, batchVars>>

\* get_landing_files and the watermark read before the loop
StartWorker(w, inc, start, end) ==
    /\ wk[w].pc = "off"
    /\ get_landing_files(start, end) # <<>>
    /\ \A v \in Workers \ {w} : WorkerUnits(v) \cap Range(get_landing_files(start, end)) = {}
    /\ wk' = [wk EXCEPT ![w] =
                [pc |-> "loop", landing_files |-> get_landing_files(start, end), i |-> 1,
                 incremental |-> inc,
                 last_watermark |-> IF inc THEN get_watermark(RunDataType, None, DefaultLayer)
                                    ELSE NoDate,
                 result |-> None]]
    /\ UNCHANGED <<ledger, wmfile, wmAsc, bronze, outcome>>
    /\ WorkerUnchanged

WorkerSkipUnit(w) ==
    /\ WorkerInLoop(w)
    /\ WorkerSkipByWatermark(w)
    /\ wk' = [wk EXCEPT ![w].i = @ + 1]
    /\ UNCHANGED <<ledger, wmfile, wmAsc, bronze, outcome>>
    /\ WorkerUnchanged

\* ingest_date and the record_ingestion call that follows it: the entry of a
\* 'success' or 'skipped' result, or the 'failed' entry of the else branch and
\* of the exception handler
WorkerIngestUnit(w, res) ==
    /\ WorkerInLoop(w)
    /\ ~WorkerSkipByWatermark(w)
    /\ bronze' = IF res = "success" THEN [bronze EXCEPT ![WorkerDate(w)] = w] ELSE bronze
    /\ IF res \in {"success", "skipped"}
       THEN /\ ledger' = record_ingestion(RunDataType, WorkerDate(w), res, None, None,
                                          DefaultLayer)
            /\ wk' = [wk EXCEPT ![w].pc = "set_watermark", ![w].result = res]
            /\ UNCHANGED outcome
       ELSE /\ ledger' = record_ingestion(RunDataType, WorkerDate(w), "failed", None,
                                          IF res = "failed" THEN NonSuccessError
                                          ELSE ExceptionError, DefaultLayer)
            /\ wk' = [wk EXCEPT ![w].i = @ + 1, ![w].result = res]
            /\ outcome' = [outcome EXCEPT ![WorkerDate(w)] = "failed"]
    /\ UNCHANGED <<wmfile, wmAsc>>
    /\ WorkerUnchanged

WorkerUpdateWatermark(w) ==
    /\ wk[w].pc = "set_watermark"
    /\ wmfile' = set_watermark(RunDataType, WorkerDate(w), None, DefaultLayer)
    /\ wmAsc' = NoteSet(RunDataType, WorkerDate(w), None, DefaultLayer)
    /\ outcome' = [outcome EXCEPT ![WorkerDate(w)] = wk[w].result]
    /\ wk' = [wk EXCEPT ![w].pc = "loop", ![w].i = @ + 1]
    /\ UNCHANGED <<ledger, bronze>>
    /\ WorkerUnchanged

WorkerFinish(w) ==
    /\ wk[w].pc = "loop"
    /\ wk[w].i > Len(wk[w].landing_files)
    /\ wk' = [wk EXCEPT ![w].pc = "done"]
    /\ UNCHANGED <<ledger, wmfile, wmAsc, bronze, outcome>>
    /\ WorkerUnchanged

NextWorkers ==
    \/ \E w \in Workers, inc \in BOOLEAN, a \in Dates, b \in Dates : StartWorker(w, inc, a, b)
    \/ \E w \in Workers : WorkerSkipUnit(w)
    \/ \E w \in Workers, res \in IngestResults : WorkerIngestUnit(w, res)
    \/ \E w \in Workers : WorkerUpdateWatermark(w)
    \/ \E w \in Workers : WorkerFinish(w)

SpecWorkers == Init /\ [][NextWorkers]_vars

\* ---- _save_partitioned ------------------------------------------------------
\* rows of the frame that fall into one partition, in frame order; rows with a
\* null ticker or a null filing date are filtered out before
PartitionRows(df, k) ==
    SelectSeq(df, LAMBDA r : /\ r.tickers # None /\ r.filing_date # NoDate
                             /\ r.filing_date = k[1] /\ r.tickers = k[2])

\* for every (year, month, ticker) of the frame: if the file exists, the new
\* rows are appended to its rows (pl.concat), then the file is written
save_partitioned(df) ==
    [k \in PartitionFiles |->
        IF PartitionRows(df, k) = <<>> THEN parts[k] ELSE parts[k] \o PartitionRows(df, k)]

DownloadUnchanged == UNCHANGED <<coreVars, wk, schemaVars, flattenVars, ratioVars, growthVars, writerVars, saverVars, rangeVars, shortVars, unnestVars, batchVars>>

\* download_balance_sheets / download_financial_ratios of one unit: the API
\* returns df and the frame is saved
Download(df) ==
    /\ dl.n = 0
    /\ parts' = save_partitioned(df)
    /\ dl' = [n |-> 1, df |-> df, after |-> parts']
    /\ DownloadUnchanged

\* the same unit is downloaded again; the source has not changed and returns
\* the same rows
Redownload ==
    /\ dl.n \in 1..(MaxDownloads - 1)
    /\ parts' = save_partitioned(dl.df)
    /\ dl' = [dl EXCEPT !.n = @ + 1]
    /\ DownloadUnchanged

NextDownload ==
    \/ \E df \in DownloadFrames : Download(df)
    \/ Redownload

SpecDownload == Init /\ [][NextDownload]_vars

\* ---- extract_fundamental_schemas --------------------------------------------
\* the files of one statement directory
FilesOf(statement_type) ==
    SelectSeq(corpus.files, LAMBDA f : f.statement_type = statement_type)

\* the scan of a list of files: every column of a file adds one to its count
\* and its dtype to its dtype set
RECURSIVE ScanFiles(_, _)
ScanFiles(stats, files) ==
    IF files = <<>> THEN stats
    ELSE ScanFiles([c \in Columns |->
                       IF Head(files).schema[c] = None THEN stats[c]
                       ELSE [count |-> stats[c].count + 1,
                             dtypes |-> stats[c].dtypes \cup {Head(files).schema[c]}]],
                   Tail(files))

\* _extract_statement_schema: self.column_stats[statement_type] after the scan;
\* the scan goes on from the statistics the object already holds
extract_statement_schema(stats, statement_type) ==
    IF statement_type \notin corpus.dirs THEN stats
    ELSE ScanFiles(stats, FilesOf(statement_type))

\* self.schemas[statement_type] after the scan: unchanged without a directory
unique_columns(schema, statement_type) ==
    IF statement_type \notin corpus.dirs THEN schema
    ELSE [columns |-> {c \in Columns : \E n \in 1..Len(FilesOf(statement_type)) :
                                           FilesOf(statement_type)[n].schema[c] # None},
          files_scanned |-> Len(FilesOf(statement_type)),
          extracted |-> TRUE]

\* _generate_unified_schema: per statement type and column of this scan the
\* occurrence_count and the dtypes of column_stats; indexing 'columns' of a
\* statement type that was never scanned raises KeyError
generate_unified_schema(column_stats, schemas) ==
    IF \E st \in StatementTypes : ~schemas[st].extracted THEN Raised
    ELSE Return([st \in StatementTypes |->
                    [files_scanned |-> schemas[st].files_scanned,
                     columns |-> [c \in Columns |->
                                     IF c \in schemas[st].columns
                                     THEN [occurrence_count |-> column_stats[st][c].count,
                                           dtypes |-> column_stats[st][c].dtypes]
                                     ELSE [occurrence_count |-> 0, dtypes |-> {}]]]])

SchemaUnchanged == UNCHANGED <<coreVars, wk, downloadVars, flattenVars, ratioVars, growthVars, writerVars, saverVars, rangeVars, shortVars, unnestVars, batchVars>>

\* the bronze statement files as the downloads left them
WriteCorpus ==
    /\ corpus = NoCorpus
    /\ ~extractor.exists
    /\ \E c \in Corpora \ {NoCorpus} : corpus' = c
    /\ UNCHANGED <<extractor, unified>>
    /\ SchemaUnchanged

\* FundamentalsSchemaExtractor(bronze_path)
NewExtractor ==
    /\ extractor' = [NoExtractor EXCEPT !.exists = TRUE]
    /\ unified' = [unified EXCEPT !.on_object = 0]
    /\ UNCHANGED corpus
    /\ SchemaUnchanged

\* extract_all_schemas(sample_size=None)
ExtractAllSchemas ==
    /\ extractor.exists
    /\ unified.n < MaxExtracts
    /\ extractor' =
          [extractor EXCEPT
              !.column_stats = [st \in StatementTypes |->
                                   extract_statement_schema(extractor.column_stats[st], st)],
              !.schemas = [st \in StatementTypes |->
                              unique_columns(extractor.schemas[st], st)]]
    /\ unified' = [n |-> unified.n + 1,
                   last |-> generate_unified_schema(extractor'.column_stats, extractor'.schemas),
                   before |-> unified.last,
                   on_object |-> unified.on_object + 1]
    /\ UNCHANGED corpus
    /\ SchemaUnchanged

NextSchema ==
    \/ WriteCorpus
    \/ NewExtractor
    \/ ExtractAllSchemas

SpecSchema == Init /\ [][NextSchema]_vars

\* ---- _flatten_ticker ----------------------------------------------------------
\* _load_statements and _unnest_financials: the key columns and the prefixed
\* metric columns of every row
Flat(table) == [n \in 1..Len(table) |-> [key |-> table[n], m |-> n]]

\* a flat table as the table the merge starts with
Lift(table, prefix) ==
    [n \in 1..Len(table) |-> [NullRow EXCEPT !.key = table[n], ![prefix] = n]]

\* rows of the full join that have a left row: one per matching right row, or
\* the left row alone; null keys match nothing
RECURSIVE JoinLeftRows(_, _, _)
JoinLeftRows(left, right, prefix) ==
    IF left = <<>> THEN <<>>
    ELSE LET l == Head(left)
             matches == SelectSeq(right, LAMBDA r : l.key # NullKey /\ r.key = l.key)
         IN  (IF matches = <<>> THEN <<l>>
              ELSE [n \in 1..Len(matches) |-> [l EXCEPT ![prefix] = matches[n].m]])
             \o JoinLeftRows(Tail(left), right, prefix)

\* rows of the full join that have no left row: the join keeps the right key
\* in the suffixed key columns and leaves the left key columns null; the
\* suffixed columns are dropped after the join
JoinRightRows(left, right, prefix) ==
    LET unmatched == SelectSeq(right, LAMBDA r : \A n \in 1..Len(left) : left[n].key # r.key)
    IN  [n \in 1..Len(unmatched) |-> [NullRow EXCEPT ![prefix] = unmatched[n].m]]

\* merged.join(to_join, on=key_cols, how='full', suffix=...) and the drop of
\* the suffixed columns
JoinFull(left, right, prefix) ==
    JoinLeftRows(left, right, prefix) \o JoinRightRows(left, right, prefix)

flatten_ticker(bs, is, cf) ==
    LET first == IF bs # <<>> THEN Lift(bs, "bs")
                 ELSE IF is # <<>> THEN Lift(is, "is") ELSE Lift(cf, "cf")
        with_is == IF is # <<>> /\ bs # <<>> THEN JoinFull(first, Flat(is), "is") ELSE first
    IN  IF cf # <<>> /\ (bs # <<>> \/ is # <<>>) THEN JoinFull(with_is, Flat(cf), "cf")
        ELSE with_is

FlattenUnchanged == UNCHANGED <<coreVars, wk, downloadVars, schemaVars, ratioVars, growthVars, writerVars, saverVars, rangeVars, shortVars, unnestVars, batchVars>>

\* the bronze statement files of the ticker
LoadStatements ==
    /\ statements = NoStatements
    /\ ~merged.done
    /\ \E bs \in StatementTables, is \in StatementTables, cf \in StatementTables :
          statements' = [bs |-> bs, is |-> is, cf |-> cf]
    /\ UNCHANGED merged
    /\ FlattenUnchanged

FlattenTicker ==
    /\ ~merged.done
    /\ merged' = [done |-> TRUE,
                  rows |-> flatten_ticker(statements.bs, statements.is, statements.cf)]
    /\ UNCHANGED statements
    /\ FlattenUnchanged

NextFlatten ==
    \/ LoadStatements
    \/ FlattenTicker

SpecFlatten == Init /\ [][NextFlatten]_vars

\* ---- _calculate_financial_ratios ----------------------------------------------
\* pl.col(a) / pl.col(b) on Float64 columns: null if an operand is null;
\* IEEE division otherwise, so x/0 is +inf or -inf and 0/0 is NaN
Divide(a, b) ==
    IF a.kind = "null" \/ b.kind = "null" THEN NullRatio
    ELSE IF b.v = 0
         THEN [kind |-> IF a.v > 0 THEN "inf" ELSE IF a.v < 0 THEN "-inf" ELSE "nan",
               num |-> 0, den |-> 0]
         ELSE [kind |-> "finite", num |-> a.v, den |-> b.v]

\* pl.col(a) - pl.col(b)
Subtract(a, b) == IF a.kind = "null" \/ b.kind = "null" THEN Null ELSE Num(a.v - b.v)

calculate_financial_ratios(row) ==
    [ratio_roe |-> Divide(row["is_net_income_loss"], row["bs_equity"]),
     ratio_roa |-> Divide(row["is_net_income_loss"], row["bs_assets"]),
     ratio_profit_margin |-> Divide(row["is_net_income_loss"], row["is_revenues"]),
     ratio_operating_margin |-> Divide(row["is_operating_income_loss"], row["is_revenues"]),
     ratio_current |-> Divide(row["bs_current_assets"], row["bs_current_liabilities"]),
     ratio_quick |-> Divide(Subtract(row["bs_current_assets"], row["bs_inventory"]),
                            row["bs_current_liabilities"]),
     ratio_debt_to_equity |-> Divide(row["bs_liabilities"], row["bs_equity"]),
     ratio_debt_to_assets |-> Divide(row["bs_liabilities"], row["bs_assets"])]

RatioUnchanged == UNCHANGED <<coreVars, wk, downloadVars, schemaVars, flattenVars, growthVars, writerVars, saverVars, rangeVars, shortVars, unnestVars, batchVars>>

\* a row of the combined table
LoadFiling ==
    /\ ~ratios.done
    /\ filing = NoFiling
    /\ \E S \in Reported : \E f \in [S -> Amounts] :
          filing' = [m \in Metrics |-> IF m \in S THEN f[m] ELSE Null]
    /\ UNCHANGED ratios
    /\ RatioUnchanged

CalculateFinancialRatios ==
    /\ ~ratios.done
    /\ ratios' = [done |-> TRUE, row |-> calculate_financial_ratios(filing)]
    /\ UNCHANGED filing
    /\ RatioUnchanged

NextRatio ==
    \/ LoadFiling
    \/ CalculateFinancialRatios

SpecRatio == Init /\ [][NextRatio]_vars

\* ---- _calculate_growth_rates --------------------------------------------------
\* the 'ticker' column of a row
TickerOf(r) == IF r.period = NullKey THEN None ELSE r.entity

TickerIndex(t) == IF t = "AAPL" THEN 1 ELSE 2

\* order of df.sort(['ticker', 'filing_date']) on rows with a key
KeyBefore(a, b) ==
    \/ TickerIndex(a.entity) < TickerIndex(b.entity)
    \/ a.entity = b.entity /\ a.period < b.period

RECURSIVE SortedKeyed(_)
SortedKeyed(rows) ==
    IF rows = {} THEN <<>>
    ELSE LET r == CHOOSE r \in rows : \A q \in rows \ {r} : KeyBefore(r, q)
         IN  <<r>> \o SortedKeyed(rows \ {r})

\* the orders in which rows with equal sort keys can come out of the sort
RECURSIVE Perms(_)
Perms(S) ==
    IF S = {} THEN {<<>>}
    ELSE UNION {{<<x>> \o p : p \in Perms(S \ {x})} : x \in S}

\* pl.col(c).shift(n).over('ticker') at position p: the value n rows earlier
\* among the rows with the same ticker value (null is a ticker value of its
\* own), 0 if there is none
ShiftOver(frame, p, n) ==
    LET group == {q \in 1..(p - 1) : TickerOf(frame[q]) = TickerOf(frame[p])}
    IN  IF Cardinality(group) < n THEN 0
        ELSE CHOOSE q \in group : Cardinality({x \in group : x > q}) = n - 1

\* (col - col.shift(n).over('ticker')) / col.shift(n).over('ticker'): null
\* where the shifted value is null, else computed from the two rows' values
growth_rate(frame, n) ==
    [p \in 1..Len(frame) |->
        IF ShiftOver(frame, p, n) = 0 THEN NullGrowth
        ELSE [kind |-> "computed", cur |-> frame[p], prev |-> frame[ShiftOver(frame, p, n)]]]

GrowthUnchanged == UNCHANGED <<coreVars, wk, downloadVars, schemaVars, flattenVars, ratioVars, writerVars, saverVars, rangeVars, shortVars, unnestVars, batchVars>>

\* the concatenated tables of all tickers
LoadCombined ==
    /\ combined = {}
    /\ ~growth.done
    /\ \E rows \in SUBSET GrowthRows : combined' = rows
    /\ UNCHANGED growth
    /\ GrowthUnchanged

\* df.sort(['ticker', 'filing_date']), nulls first, rows with equal keys in any
\* order; then the growth columns
CalculateGrowthRates ==
    /\ ~growth.done
    /\ \E nulls \in Perms({r \in combined : r.period = NullKey}) :
          LET frame == nulls \o SortedKeyed({r \in combined : r.period # NullKey})
          IN  growth' = [done |-> TRUE, frame |-> frame,
                         yoy |-> growth_rate(frame, Lookback.yoy),
                         qoq |-> growth_rate(frame, Lookback.qoq)]
    /\ UNCHANGED combined
    /\ GrowthUnchanged

NextGrowth ==
    \/ LoadCombined
    \/ CalculateGrowthRates

SpecGrowth == Init /\ [][NextGrowth]_vars

\* ---- write_partitioned_silver --------------------------------------------------
\* df.select(['ticker', 'event_type']).unique(): null is a value of its own
unique_partitions(df) == {<<r.ticker, r.event_type>> : r \in df}

\* df.filter((pl.col('ticker') == ticker) & (pl.col('event_type') == event_type)):
\* a comparison with a null on either side is null, and filter drops the rows
\* whose predicate is null
filter_partition(df, p) ==
    {r \in df : /\ r.ticker # None /\ p[1] # None /\ r.ticker = p[1]
                /\ r.event_type = p[2]}

\* partition_df.sort('event_date', descending=True): maintain_order is left at
\* False, so rows with equal event_date come out in an order the sort does not
\* fix
sort_descending(rows) ==
    {s \in Perms(rows) :
        \A a, b \in 1..Len(s) : a < b => s[a].event_date >= s[b].event_date}

WriterUnchanged == UNCHANGED <<coreVars, wk, downloadVars, schemaVars, flattenVars, ratioVars, growthVars, saverVars, rangeVars, shortVars, unnestVars, batchVars>>

\* main: the concatenated tables of the process_* functions (a behaviour follows
\* one script, this one or the flattener)
LoadActions ==
    /\ ~writer.loaded
    /\ ~saver.loaded
    /\ \E ids \in SUBSET (1..MaxActions) : \E f \in [ids -> ActionContents] :
          combined_df' = {[id |-> k, ticker |-> f[k].ticker,
                           event_type |-> f[k].event_type,
                           event_date |-> f[k].event_date] : k \in ids}
    /\ writer' = [writer EXCEPT !.loaded = TRUE]
    /\ UNCHANGED silver
    /\ WriterUnchanged

\* write_partitioned_silver up to the loop: the stats and the partitions
StartWrite ==
    /\ writer.loaded
    /\ writer.pc = "idle"
    /\ writer.n < MaxWrites
    /\ writer' = [writer EXCEPT !.pc = "loop",
                                !.partitions = unique_partitions(combined_df),
                                !.stats = [tickers_written |-> 0, files_written |-> 0,
                                           total_records |-> Cardinality(combined_df)],
                                !.before = silver]
    /\ UNCHANGED <<combined_df, silver>>
    /\ WriterUnchanged

\* one pass of the loop: filter, sort, write data.parquet of the partition
WritePartition ==
    /\ writer.pc = "loop"
    /\ \E p \in writer.partitions :
        \E rows \in sort_descending(filter_partition(combined_df, p)) :
          /\ silver' = [silver EXCEPT ![p] = [exists |-> TRUE, rows |-> rows]]
          /\ writer' = [writer EXCEPT !.partitions = @ \ {p},
                                      !.stats.files_written = @ + 1]
    /\ UNCHANGED combined_df
    /\ WriterUnchanged

\* after the loop: tickers_written, return stats
FinishWrite ==
    /\ writer.pc = "loop"
    /\ writer.partitions = {}
    /\ writer' = [writer EXCEPT !.pc = "idle", !.n = @ + 1,
                                !.stats.tickers_written =
                                    Cardinality({r.ticker : r \in combined_df})]
    /\ UNCHANGED <<combined_df, silver>>
    /\ WriterUnchanged

\* ---- _save_to_silver ------------------------------------------------------------
\* the (fiscal_year, fiscal_quarter) values of df.group_by: null is a group of
\* its own
group_keys(df) == {<<df[k].fiscal_year, df[k].fiscal_quarter>> : k \in 1..Len(df)}

\* group_df of one key: the rows of the group in the order they have in df
\* (group_by keeps the order of the rows within a group)
group_df(df, g) ==
    LET InGroup(r) == r.fiscal_year = g[1] /\ r.fiscal_quarter = g[2]
    IN  SelectSeq(df, InGroup)

SaverUnchanged == UNCHANGED <<coreVars, wk, downloadVars, schemaVars, flattenVars, ratioVars, growthVars, writerVars, rangeVars, shortVars, unnestVars, batchVars>>

\* process_all_fundamentals: the table handed to _save_to_silver
LoadWide ==
    /\ ~saver.loaded
    /\ ~writer.loaded
    /\ \E n \in 0..MaxWideRows : \E f \in [1..n -> WideContents] :
          wide_df' = [k \in 1..n |-> [id |-> k, fiscal_year |-> f[k].fiscal_year,
                                      fiscal_quarter |-> f[k].fiscal_quarter]]
    /\ saver' = [saver EXCEPT !.loaded = TRUE]
    /\ UNCHANGED fundamentals_wide
    /\ SaverUnchanged

\* _save_to_silver: one data.parquet per group, whatever the order of the groups
SaveToSilver ==
    /\ saver.loaded
    /\ saver.n < MaxWrites
    /\ fundamentals_wide' =
          [g \in YearQuarterDirs |->
              IF g \in group_keys(wide_df)
              THEN [exists |-> TRUE, rows |-> group_df(wide_df, g)]
              ELSE fundamentals_wide[g]]
    /\ saver' = [saver EXCEPT !.n = @ + 1, !.before = fundamentals_wide]
    /\ UNCHANGED wide_df
    /\ SaverUnchanged

NextWriter ==
    \/ LoadActions
    \/ StartWrite
    \/ WritePartition
    \/ FinishWrite
    \/ LoadWide
    \/ SaveToSilver

SpecWriter == Init /\ [][NextWriter]_vars

\* ---- generate_date_ranges -------------------------------------------------------
Earlier(a, b) == IF a < b THEN a ELSE b

\* while current < end: chunk_end = min(current + chunk_months * 30 days, end);
\* append (current, chunk_end); current = chunk_end + 1 day
RECURSIVE ChunkLoop(_, _, _)
ChunkLoop(current, end, chunk_months) ==
    IF ~(current < end) THEN <<>>
    ELSE LET chunk_end == Earlier(current + chunk_months * DaysPerChunkMonth, end)
         IN  <<<<current, chunk_end>>>> \o ChunkLoop(chunk_end + 1, end, chunk_months)

generate_date_ranges(start, end, chunk_months) == ChunkLoop(start, end, chunk_months)

RangeUnchanged == UNCHANGED <<coreVars, wk, downloadVars, schemaVars, flattenVars, ratioVars, growthVars, writerVars, saverVars, shortVars, unnestVars, batchVars>>

\* a call with start_date <= end_date and chunk_months >= 1
CallGenerateDateRanges ==
    /\ range_args = NoRangeArgs
    /\ \E start \in 1..MaxRangeDay : \E end \in start..MaxRangeDay :
       \E chunk_months \in 1..MaxChunkMonths :
          range_args' = [start_date |-> start, end_date |-> end,
                         chunk_months |-> chunk_months]
    /\ UNCHANGED date_ranges
    /\ RangeUnchanged

ReturnDateRanges ==
    /\ range_args # NoRangeArgs
    /\ ~date_ranges.done
    /\ date_ranges' = [done |-> TRUE,
                       ranges |-> generate_date_ranges(range_args.start_date,
                                                       range_args.end_date,
                                                       range_args.chunk_months)]
    /\ UNCHANGED range_args
    /\ RangeUnchanged

NextRanges ==
    \/ CallGenerateDateRanges
    \/ ReturnDateRanges

SpecRanges == Init /\ [][NextRanges]_vars

\* ---- batch_load_short_data: main and process_range_wrapper ----------------------
ShortUnchanged == UNCHANGED <<coreVars, wk, downloadVars, schemaVars, flattenVars, ratioVars, growthVars, writerVars, saverVars, rangeVars, unnestVars, batchVars>>

\* the records the API can return for a range: per ticker one on the first and
\* one on the last day of the range
RangeRows(r) == [ticker : ShortTickers, date : {r[1], r[2]}]

\* the records of one ticker in the order the API returned them, by date
RECURSIVE RowsByDate(_)
RowsByDate(rows) ==
    IF rows = {} THEN <<>>
    ELSE LET first == CHOOSE r \in rows : \A q \in rows : r.date <= q.date
         IN  <<first>> \o RowsByDate(rows \ {first})

\* year/month/ticker of a record
ShortPartitionOf(row) == <<MonthOf(row.date), row.ticker>>

\* main (--interest-only): the ranges not completed in the progress file become
\* the work items submitted to the ProcessPoolExecutor
ShortMain ==
    /\ ~pool.started
    /\ \E start \in ShortStarts : \E chunk_months \in 1..MaxChunkMonths :
          LET ranges == generate_date_ranges(start, MaxRangeDay, chunk_months)
              pending == SelectSeq(ranges, LAMBDA r : r \notin Range(progress_file.completed))
          IN  pool' = [started |-> TRUE, work_items |-> pending,
                       status |-> [k \in 1..Len(pending) |-> "pending"], rows |-> {}]
    /\ UNCHANGED <<procs, short_files, progress_file>>
    /\ ShortUnchanged

\* a worker process takes the next work item; process_range_wrapper creates a
\* ProgressTracker, which loads the progress file
TakeWorkItem(w) ==
    /\ pool.started
    /\ procs[w].pc = "idle"
    /\ \E t \in 1..Len(pool.work_items) :
          /\ pool.status[t] = "pending"
          /\ \A u \in 1..(t - 1) : pool.status[u] # "pending"
          /\ pool' = [pool EXCEPT !.status[t] = "running"]
          /\ procs' = [procs EXCEPT ![w] = [NoProc EXCEPT !.pc = "download", !.task = t,
                                                           !.data = progress_file]]
    /\ UNCHANGED <<short_files, progress_file>>
    /\ ShortUnchanged

\* download_short_interest raises: mark_failed saves the tracker's data, the
\* wrapper returns success False
DownloadFails(w) ==
    /\ procs[w].pc = "download"
    /\ LET data == [procs[w].data EXCEPT !.failed = @ \cup {pool.work_items[procs[w].task]}]
       IN  progress_file' = data
    /\ pool' = [pool EXCEPT !.status[procs[w].task] = "failed"]
    /\ procs' = [procs EXCEPT ![w] = NoProc]
    /\ UNCHANGED short_files
    /\ ShortUnchanged

\* download_short_interest fetched the records of the range;
\* _save_partitioned_short_data computes the partitions of the frame
DownloadRange(w) ==
    /\ procs[w].pc = "download"
    /\ \E df \in SUBSET RangeRows(pool.work_items[procs[w].task]) :
          /\ procs' = [procs EXCEPT ![w].df = df,
                                    ![w].todo = {ShortPartitionOf(row) : row \in df},
                                    ![w].pc = IF df = {} THEN "mark" ELSE "save"]
          /\ pool' = [pool EXCEPT !.rows = @ \cup df]
    /\ UNCHANGED <<short_files, progress_file>>
    /\ ShortUnchanged

\* one partition of the loop: if output_file.exists(): existing_df = read_parquet
ShortReadExisting(w) ==
    /\ procs[w].pc = "save"
    /\ \E p \in procs[w].todo :
          procs' = [procs EXCEPT ![w].part = p, ![w].existing = short_files[p],
                                 ![w].pc = "write"]
    /\ UNCHANGED <<pool, short_files, progress_file>>
    /\ ShortUnchanged

\* pl.concat([existing_df, partition_df]).write_parquet(output_file); the rows
\* of the partition in the order of the frame (by date)
ShortWriteParquet(w) ==
    /\ procs[w].pc = "write"
    /\ LET p == procs[w].part
           partition_df == RowsByDate({row \in procs[w].df : ShortPartitionOf(row) = p})
       IN  /\ short_files' = [short_files EXCEPT ![p] = procs[w].existing \o partition_df]
           /\ procs' = [procs EXCEPT ![w].todo = @ \ {p}, ![w].part = <<>>,
                                     ![w].existing = <<>>,
                                     ![w].pc = IF procs[w].todo = {p} THEN "mark" ELSE "save"]
    /\ UNCHANGED <<pool, progress_file>>
    /\ ShortUnchanged

\* mark_interest_completed: append the range to the tracker's list unless it is
\* in it, save(): the progress file is rewritten from the tracker's data
MarkInterestCompleted(w) ==
    /\ procs[w].pc = "mark"
    /\ LET r == pool.work_items[procs[w].task]
           data == IF r \in Range(procs[w].data.completed) THEN procs[w].data
                   ELSE [procs[w].data EXCEPT !.completed = Append(@, r)]
       IN  progress_file' = data
    /\ pool' = [pool EXCEPT !.status[procs[w].task] = "ok"]
    /\ procs' = [procs EXCEPT ![w] = NoProc]
    /\ UNCHANGED short_files
    /\ ShortUnchanged

NextShort ==
    \/ ShortMain
    \/ \E w \in Workers : TakeWorkItem(w)
    \/ \E w \in Workers : DownloadFails(w)
    \/ \E w \in Workers : DownloadRange(w)
    \/ \E w \in Workers : ShortReadExisting(w)
    \/ \E w \in Workers : ShortWriteParquet(w)
    \/ \E w \in Workers : MarkInterestCompleted(w)

SpecShort == Init /\ [][NextShort]_vars

\* ---- _unnest_financials -----------------------------------------------------------
\* the column f"{prefix}_{metric_name}" is the pair <<prefix, metric_name>>
unnest_financials(df, prefix) ==
    LET result_df == Frame(df.rows, key_cols, {}, {})
    IN  IF df.financials = "absent" THEN Frame(df.rows, key_cols, df.others, {})
        ELSE IF df.financials # "struct" THEN result_df
        ELSE IF statement_map[prefix] \notin df.fields THEN result_df
        ELSE IF ~df.statement_is_struct THEN result_df
        ELSE Frame(df.rows, key_cols, {},
                   {<<prefix, m>> : m \in {n \in MetricNames : df.metrics[n] = "value"}})

UnnestUnchanged == UNCHANGED <<coreVars, wk, downloadVars, schemaVars, flattenVars, ratioVars, growthVars, writerVars, saverVars, rangeVars, shortVars, batchVars>>

\* _load_statements: the batch of one statement type of a ticker
LoadBatch ==
    /\ batch = NoBatch
    /\ \E b \in Batches : batch' = b
    /\ UNCHANGED unnested
    /\ UnnestUnchanged

\* no statement of the function raises on a batch that has the key columns
UnnestFinancials ==
    /\ batch # NoBatch
    /\ ~unnested.done
    /\ \E prefix \in Prefixes :
          unnested' = [done |-> TRUE, prefix |-> prefix, raised |-> FALSE,
                       frame |-> unnest_financials(batch, prefix)]
    /\ UNCHANGED batch
    /\ UnnestUnchanged

NextUnnest ==
    \/ LoadBatch
    \/ UnnestFinancials

SpecUnnest == Init /\ [][NextUnnest]_vars

\* ---- ingest_batch_streaming: ingest_month and main --------------------------------
\* variant: a timed-out month is reported like a successful one
ingest_month_TimeoutIsSuccess(ended) == ended \in {"returncode_0", "timeout"}

\* return result.returncode == 0; except TimeoutExpired: return False;
\* except Exception: return False
ingest_month(ended) == ended = "returncode_0"

BatchUnchanged == UNCHANGED <<coreVars, wk, downloadVars, schemaVars, flattenVars, ratioVars, growthVars, writerVars, saverVars, rangeVars, shortVars, unnestVars>>

\* main up to the loops
StartBatch ==
    /\ driver.pc = "idle"
    /\ \E minute_only \in BOOLEAN :
          driver' = [driver EXCEPT !.pc = "months", !.minute_only = minute_only]
    /\ BatchUnchanged

\* one pass of the month loops: ingest_month, then the counter of the data type
IngestMonth ==
    /\ driver.pc = "months"
    /\ ~driver.minute_only
    /\ driver.k <= Len(BatchMonths)
    /\ \E ended \in MonthOutcomes :
          LET ok == ingest_month(ended)
              stocks == BatchMonths[driver.k].data_type = "stocks_daily"
          IN  driver' = [driver EXCEPT
                  !.k = @ + 1,
                  !.outcomes = Append(@, ended),
                  !.stocks_daily_success = IF stocks /\ ok THEN @ + 1 ELSE @,
                  !.stocks_daily_fail = IF stocks /\ ~ok THEN @ + 1 ELSE @,
                  !.options_daily_success = IF ~stocks /\ ok THEN @ + 1 ELSE @,
                  !.options_daily_fail = IF ~stocks /\ ~ok THEN @ + 1 ELSE @]
    /\ BatchUnchanged

\* return 0 if no month failed else 1; sys.exit(main())
BatchExits ==
    /\ driver.pc = "months"
    /\ driver.minute_only \/ driver.k > Len(BatchMonths)
    /\ driver' = [driver EXCEPT
            !.pc = "exited",
            !.exit_code = IF driver.stocks_daily_fail = 0 /\ driver.options_daily_fail = 0
                          THEN 0 ELSE 1]
    /\ BatchUnchanged

NextBatch ==
    \/ StartBatch
    \/ IngestMonth
    \/ BatchExits

SpecBatch == Init /\ [][NextBatch]_vars

\* ========================== properties ======================================
UnitFile(d) == get_metadata_file(RunDataType, d, None, DefaultLayer)
RunWatermark == get_watermark(RunDataType, None, DefaultLayer)
Present == {f \in MetadataFiles : ledger[f] # NoFile}
Units == Range(landing_files)

\* C1: after successful set_watermark calls with ascending dates for one
\* (dataset, scope, layer), get_watermark returns the largest date that was set
\* (with ascending calls that is the date of the last call, which the watermark
\* file holds).
C1_GetReturnsMaxSet ==
    \A dt \in DataTypes, s \in Symbols, l \in CallerLayers :
        LET w == get_watermark_file(dt, s, l)
        IN  (wmfile[w] # NoDate /\ wmAsc[w]) => get_watermark(dt, s, l) = wmfile[w]

\* C2: over ingestion runs (incremental or forced, units succeeding or failing,
\* no delete) the value get_watermark returns never decreases from one
\* observation to the next.
C2_WatermarkNeverDecreases == [][RunWatermark' >= RunWatermark]_vars

\* C3: the second of two incremental runs over the same date range fetches no
\* unit and leaves the artifacts unchanged (stated for a first run in which no
\* unit failed).
C3_SecondRunFetchesNothing ==
    (/\ pc = "done"
     /\ incremental
     /\ prev.status = "completed" /\ prev.incremental /\ ~prev.failed
     /\ prev.start = start_date /\ prev.end = end_date)
    => (fetches = 0 /\ bronze = bronzeAtStart)

\* C4 (as claimed): a unit skipped by the watermark has a 'skipped' ledger entry.
C4_SkippedUnitHasEntry ==
    \A d \in Dates : outcome[d] = "below_watermark" => ledger[UnitFile(d)].status = "skipped"

\* units at or below the watermark read at the start of an incremental run
\* are skipped
C4_BelowWatermarkSkipped ==
    \A n \in 1..Len(landing_files) :
        (pc \in {"loop", "done"} /\ n < i /\ incremental /\ last_watermark # NoDate
           /\ landing_files[n] <= last_watermark)
        => outcome[landing_files[n]] = "below_watermark"

\* the skip of a unit fetches nothing and writes nothing
C4_SkipStep ==
    (InLoop /\ SkipByWatermark) =>
        (/\ ledger' = ledger
         /\ wmfile' = wmfile
         /\ bronze' = bronze
         /\ fetches' = fetches
         /\ i' = i + 1)

\* C4 (amended): in incremental mode every candidate unit at or below the
\* watermark read at the start of the run is skipped without a fetch, and the
\* skip writes nothing: ledger, watermark file and artifacts stay as they were.
C4_SkipWritesNothing == []C4_BelowWatermarkSkipped /\ [][C4_SkipStep]_vars

\* a unit was skipped by the watermark and has no ledger entry at all
C4_Witness ==
    \E d \in Dates : outcome[d] = "below_watermark" /\ ledger[UnitFile(d)] = NoFile /\ pc = "done"

\* a failed unit has a 'failed' entry that carries an error message
C5_FailedUnitRecorded ==
    \A d \in Dates : outcome[d] = "failed" =>
        (ledger[UnitFile(d)].status = "failed" /\ ledger[UnitFile(d)].error # None)

\* the summary is reached only after every candidate unit was visited
C5_AllUnitsVisited ==
    (pc = "done" /\ summary.status = "completed") => \A d \in Units : outcome[d] # "none"

\* recording a failure sets no watermark and moves on to the next unit
C5_FailureStep ==
    pc \in {"record_failed", "except"} =>
        (/\ wmfile' = wmfile
         /\ RunWatermark' <= RunWatermark
         /\ pc' = "loop"
         /\ i' = i + 1
         /\ outcome'[file_date] = "failed")

\* C5: a unit whose processing fails gets a 'failed' ledger entry with an error
\* message, the watermark is not advanced for it, and the remaining units of the
\* batch are still processed up to the final summary.
C5_FailedUnitRecordedBatchContinues ==
    [](C5_FailedUnitRecorded /\ C5_AllUnitsVisited) /\ [][C5_FailureStep]_vars

\* a unit failed and a later unit of the same run was ingested
C5_Witness ==
    /\ pc = "done"
    /\ \E d, e \in Units : d < e /\ outcome[d] = "failed" /\ outcome[e] = "success"
                           /\ ledger[UnitFile(e)].status = "success"

\* C6 (as claimed): a run during which a metadata call failed does not complete;
\* it reports a fatal error.
C6_StoreFailureIsFatal == (pc = "done" /\ storeErr) => summary.status # "completed"

\* C6 (amended): a failure of record_ingestion or set_watermark is handled like
\* a failure of the unit (the 'failed' entry is attempted, a failure to write it
\* is ignored) and a failed watermark read counts as no watermark; the run goes
\* on with every remaining unit and returns a 'completed' summary.
C6_StoreFailureIsSwallowed ==
    /\ (pc = "done" /\ storeErr) =>
          (summary.status = "completed" /\ \A d \in Units : outcome[d] # "none")
    /\ (pc = "loop" /\ i = 1 /\ storeErr) => last_watermark = NoDate
    /\ (pc = "except" /\ result # "raised") => storeErr

\* the metadata write of the first unit failed and left no entry, the second
\* unit was ingested and recorded
C6_Witness ==
    /\ pc = "done" /\ storeErr /\ Len(landing_files) = 2
    /\ outcome[landing_files[1]] = "failed" /\ ledger[UnitFile(landing_files[1])] = NoFile
    /\ outcome[landing_files[2]] = "success"
    /\ ledger[UnitFile(landing_files[2])].status = "success"

\* 'success' records of the dataset and layer that match the scope; an unscoped
\* call matches the records of every symbol
SuccessOf(dt, s, l) ==
    {f \in Present : /\ f[1] = l /\ f[2] = dt /\ ledger[f].status = "success"
                     /\ (s = None \/ ledger[f].symbol = s)}

\* C7: get_watermark returns absent if and only if no successful record exists
\* for the (dataset, scope, layer).
C7_AbsentIffNoSuccess ==
    \A dt \in DataTypes, s \in Symbols, l \in CallerLayers :
        (get_watermark(dt, s, l) = NoDate) <=> (SuccessOf(dt, s, l) = {})

\* a step that is a record_ingestion call
IsRecordCall == ret'.op = "record_ingestion" /\ apiCalls' = apiCalls + 1

EntriesOf(dt, a, b, l) ==
    {f \in Present : /\ f[2] = dt
                     /\ (l = None \/ f[1] = l)
                     /\ (a = NoDate \/ ledger[f].date >= a)
                     /\ (b = NoDate \/ ledger[f].date <= b)}

\* C9: for any non-empty set of ledger entries get_statistics_summary reports
\* success_rate = (success + skipped) / total, so it is exactly 1 when the set
\* holds only success and skipped entries.
C9_SkipAccounting ==
    \A dt \in DataTypes, a \in OptDates, b \in OptDates, l \in OptLayers :
        LET E == EntriesOf(dt, a, b, l)
            good == {f \in E : ledger[f].status \in {"success", "skipped"}}
            out == get_statistics_summary(dt, a, b, l)
        IN  E # {} =>
              (/\ ~out.raised
               /\ out.value.success_rate = <<Cardinality(good), Cardinality(E)>>
               /\ (good = E => out.value.success_rate[1] = out.value.success_rate[2]))

\* C10: get_missing_dates returns, in ascending order, exactly the expected
\* dates that have no 'success' entry of the dataset within [start, end].
C10_MissingIsSetDifference ==
    \A dt \in DataTypes, a \in Dates, b \in Dates, e \in ExpectedLists :
        LET succ == {ledger[f].date : f \in {g \in EntriesOf(dt, a, b, None) :
                                              ledger[g].status = "success"}}
            out == get_missing_dates(dt, a, b, e)
        IN  /\ ~out.raised
            /\ Range(out.value) = Range(e) \ succ
            /\ \A m, n \in 1..Len(out.value) : m < n => out.value[m] <= out.value[n]

\* units a worker completed with status 'success'
CompletedUnits == {d \in Dates : outcome[d] = "success"}

AllWorkersDone == \A w \in Workers : wk[w].pc = "done"

RerunOfSameUnit == dl.n = 2

\* C13: after the download of a unit is run a second time, every partition
\* file holds the same rows as after the first run, none of them twice.
C13_RerunLeavesPartitionsEqual ==
    RerunOfSameUnit =>
        \A k \in PartitionFiles :
            /\ parts[k] = dl.after[k]
            /\ \A m, n \in 1..Len(parts[k]) : m # n => parts[k][m] # parts[k][n]

\* C14: two schema extractions over the same unchanged corpus, on one extractor
\* object or on two, report for every statement type and column the same
\* occurrence_count and the same dtype set.
C14_ExtractionIdempotent ==
    (unified.n >= 2 /\ ~unified.before.raised /\ ~unified.last.raised) =>
        \A st \in StatementTypes, c \in Columns :
            /\ unified.last.value[st].columns[c].occurrence_count =
                  unified.before.value[st].columns[c].occurrence_count
            /\ unified.last.value[st].columns[c].dtypes =
                  unified.before.value[st].columns[c].dtypes

\* the command has exited after a run in which some unit ended as 'failed'
SomeUnitFailed == \E d \in Units : outcome[d] = "failed"

\* C12: the command exits with status 0 when every unit succeeded and with a
\* non-zero status when at least one unit ended in 'failed' status.
C12_ExitCodeReflectsFailures ==
    exit_code # NoExit => (exit_code = 0 <=> ~SomeUnitFailed)


\* keys of the rows of the merged table
MergedKeys == {merged.rows[n].key : n \in 1..Len(merged.rows)}

\* C15: the merged table of a ticker has exactly the union of the natural keys
\* of the three inputs; every row carries its own non-null key, and its columns
\* of a source are null exactly when that source lacks the key.
C15_OuterJoinComplete ==
    merged.done =>
        /\ MergedKeys = Range(statements.bs) \cup Range(statements.is) \cup Range(statements.cf)
        /\ \A n \in 1..Len(merged.rows) :
              /\ merged.rows[n].key # NullKey
              /\ merged.rows[n].bs = 0 <=> merged.rows[n].key \notin Range(statements.bs)
              /\ merged.rows[n].is = 0 <=> merged.rows[n].key \notin Range(statements.is)
              /\ merged.rows[n].cf = 0 <=> merged.rows[n].key \notin Range(statements.cf)

\* C16: no two rows of the merged table share a natural key, whatever the
\* bronze inputs, also when a source holds a key more than once.
C16_NaturalKeyUnique ==
    merged.done =>
        \A m, n \in 1..Len(merged.rows) : m # n => merged.rows[m].key # merged.rows[n].key


\* the denominator column of every ratio column
Denominator ==
    [ratio_roe |-> "bs_equity", ratio_roa |-> "bs_assets",
     ratio_profit_margin |-> "is_revenues", ratio_operating_margin |-> "is_revenues",
     ratio_current |-> "bs_current_liabilities", ratio_quick |-> "bs_current_liabilities",
     ratio_debt_to_equity |-> "bs_equity", ratio_debt_to_assets |-> "bs_assets"]

\* C17: a ratio whose denominator is null or 0 is null, never NaN or an
\* infinity.
C17_RatioNullSafe ==
    ratios.done =>
        \A r \in DOMAIN Denominator :
            (filing[Denominator[r]].kind = "null" \/ filing[Denominator[r]].v = 0)
                => ratios.row[r].kind = "null"


\* number of rows of the same entity with an earlier period
PeriodRank(r) ==
    Cardinality({q \in combined : q.entity = r.entity /\ q.period # NullKey /\ q.period < r.period})

\* C18: per entity, with its rows ordered by period, a growth metric with
\* lookback N (4 year-over-year, 1 quarter-over-quarter) is null on the
\* entity's earliest N rows, is computed only on rows beyond the Nth, and is
\* never computed from a row of another entity.
C18_GrowthLookbackBoundary ==
    growth.done =>
        \A m \in DOMAIN Lookback : \A p \in 1..Len(growth.frame) :
            /\ (growth.frame[p].period # NullKey /\ PeriodRank(growth.frame[p]) < Lookback[m])
                  => growth[m][p].kind = "null"
            /\ growth[m][p].kind = "computed"
                  => growth[m][p].prev.entity = growth.frame[p].entity


\* a call of write_partitioned_silver has returned
WriteReturned == writer.n >= 1 /\ writer.pc = "idle"

\* the rows in the files of all partitions
WrittenRows == UNION {{silver[p].rows[k] : k \in 1..Len(silver[p].rows)} : p \in PartitionDirs}

RECURSIVE WrittenCount(_)
WrittenCount(dirs) ==
    IF dirs = {} THEN 0
    ELSE LET p == CHOOSE p \in dirs : TRUE
         IN  Len(silver[p].rows) + WrittenCount(dirs \ {p})

\* C19: after the partition writer has returned, the files it wrote are those
\* of exactly the distinct (ticker, event_type) combinations of the input, one
\* file per combination, no file has zero rows, and the rows of all files
\* together are exactly the rows of the input, none lost and none duplicated,
\* rows with a null ticker included.
C19_PartitionsCoverInput ==
    WriteReturned =>
        /\ {p \in PartitionDirs : silver[p].exists} = unique_partitions(combined_df)
        /\ writer.stats.files_written = Cardinality(unique_partitions(combined_df))
        /\ \A p \in PartitionDirs : silver[p].exists => Len(silver[p].rows) > 0
        /\ WrittenRows = combined_df
        /\ WrittenCount(PartitionDirs) = Cardinality(combined_df)


\* write_partitioned_silver has returned at least twice on the same table
WrittenTwice == writer.n >= 2 /\ writer.pc = "idle"

\* _save_to_silver has returned at least twice on the same table
SavedTwice == saver.n >= 2

C21_ArtifactLedgerWatermarkOrder ==
    /\ [][(pc = "set_watermark" /\ pc' = "loop") =>
            (/\ wmfile' = set_watermark(RunDataType, file_date, None, DefaultLayer)
             /\ \A d \in Dates : outcome[d] \in {"success", "skipped"} => d < file_date)]_vars
    /\ [][wmfile' # wmfile => (pc = "set_watermark" /\ pc' = "loop")]_vars
    /\ [](pc = "set_watermark" =>
            /\ (result = "success" => bronze[file_date] = runs)
            /\ ledger[UnitFile(file_date)] =
                  Record(RunDataType, file_date, result, None, None, DefaultLayer))

\* both units of a run were ingested and recorded, and the watermark file
\* holds the larger key
C21_Witness ==
    /\ pc = "loop" /\ Len(landing_files) = 2 /\ i = 3
    /\ outcome[landing_files[1]] = "success" /\ outcome[landing_files[2]] = "success"
    /\ wmfile[get_watermark_file(RunDataType, None, DefaultLayer)] = landing_files[2]


\* C26: when an incremental run has completed, every unit of its range whose
\* key is at or below the value get_watermark then returns has been ingested
\* successfully: no unit that failed in the run is at or below it, and a unit
\* the run skipped as below the watermark has its artifact.
C26_WatermarkCoversOnlyIngested ==
    (pc = "done" /\ incremental /\ summary.status = "completed") =>
        \A d \in Units :
            d <= RunWatermark =>
                /\ outcome[d] # "failed"
                /\ (outcome[d] = "below_watermark" => bronze[d] # 0)


\* the run was interrupted while it was working on a unit that it had not
\* completed and that no earlier run had ingested
InterruptedUnit ==
    /\ pc = "done" /\ summary.status = "interrupted"
    /\ i <= Len(landing_files)
    /\ outcome[file_date] = "none"
    /\ bronzeAtStart[file_date] = 0

\* C22: after a run was interrupted between two steps of a unit, that unit
\* does not count as done: its key is above the value get_watermark returns
\* (so the next incremental run processes it again) unless its artifact was
\* written, its 'success' entry recorded and its watermark update performed.
C22_InterruptedUnitNotDone ==
    InterruptedUnit => file_date > RunWatermark


\* the days covered by the ranges of a list
CoveredDays(ranges) == UNION {ranges[k][1]..ranges[k][2] : k \in 1..Len(ranges)}

\* C28: for start_date <= end_date and chunk_months >= 1 the ranges returned
\* by generate_date_ranges each have start <= end, are in ascending order and
\* do not overlap, and together cover exactly the days start_date..end_date,
\* end_date included.
C28_RangesPartitionInterval ==
    date_ranges.done =>
        LET ranges == date_ranges.ranges
        IN  /\ \A k \in 1..Len(ranges) : ranges[k][1] <= ranges[k][2]
            /\ \A k \in 1..(Len(ranges) - 1) : ranges[k][2] < ranges[k + 1][1]
            /\ CoveredDays(ranges) = range_args.start_date..range_args.end_date


\* every work item of the pool has returned
AllWorkItemsDone ==
    /\ pool.started
    /\ \A t \in 1..Len(pool.work_items) : pool.status[t] \in {"ok", "failed"}

\* the partition files a date range maps to
RangePartitions(r) == {ShortPartitionOf(row) : row \in RangeRows(r)}

\* C23: the date ranges given to the workers map to pairwise disjoint sets of
\* partition files (year/month/ticker), and after all workers have finished
\* every downloaded record is in its partition file: none was lost by two
\* workers doing read-existing, concat, write on one file.
C23_DisjointPartitionsNoLostRows ==
    /\ \A t, u \in 1..Len(pool.work_items) :
          t # u => RangePartitions(pool.work_items[t]) \cap RangePartitions(pool.work_items[u]) = {}
    /\ AllWorkItemsDone =>
          \A row \in pool.rows : row \in Range(short_files[ShortPartitionOf(row)])

\* C27: after all worker processes have finished, the completed list of the
\* progress file holds every date range whose download completed
\* successfully, so a following run without --force has none of them pending.
C27_NoCompletionMarkLost ==
    AllWorkItemsDone =>
        \A t \in 1..Len(pool.work_items) :
            pool.status[t] = "ok" => pool.work_items[t] \in Range(progress_file.completed)


\* the batch has no usable statement struct for the prefix
Malformed(df, prefix) ==
    \/ df.financials # "struct"
    \/ statement_map[prefix] \notin df.fields

\* C24: the struct flattener does not raise and returns one row per input
\* record; for a batch whose 'financials' column is absent, is not a struct
\* or lacks the statement struct of the prefix, the rows have the natural-key
\* columns and no other column.
C24_MalformedGivesKeyColumnsOnly ==
    unnested.done =>
        /\ ~unnested.raised
        /\ unnested.frame.rows = batch.rows
        /\ Malformed(batch, unnested.prefix) =>
              unnested.frame = Frame(batch.rows, key_cols, {}, {})


\* number of months attempted so far whose subprocess ended in one of the outcomes
MonthsEnding(outcomes) ==
    Cardinality({k \in 1..Len(driver.outcomes) : driver.outcomes[k] \in outcomes})

\* C25: in the monthly batch driver every month whose subprocess timed out is
\* counted as failed (the failed count is the number of months that did not
\* return 0, the success count the number that did), every month is
\* attempted whatever happened to the months before it, and the exit code is
\* non-zero if and only if at least one month failed.
C25_TimeoutIsFailureBatchContinues ==
    /\ driver.stocks_daily_fail + driver.options_daily_fail =
          MonthsEnding(MonthOutcomes \ {"returncode_0"})
    /\ driver.stocks_daily_success + driver.options_daily_success =
          MonthsEnding({"returncode_0"})
    /\ (driver.pc = "exited" /\ ~driver.minute_only) =>
          Len(driver.outcomes) = Len(BatchMonths)
    /\ driver.pc = "exited" =>
          (driver.exit_code # 0 <=> MonthsEnding(MonthOutcomes \ {"returncode_0"}) > 0)

\* the first month timed out, a later month was ingested, the driver exited
\* with status 1
C25_Witness ==
    /\ driver.pc = "exited" /\ driver.exit_code = 1
    /\ driver.outcomes[1] = "timeout"
    /\ driver.outcomes[Len(BatchMonths)] = "returncode_0"
    /\ driver.stocks_daily_fail = 1


\* C29: for every layer, right after record_ingestion(data_type, date, status,
\* statistics, symbol, layer) get_ingestion_status(data_type, date, symbol)
\* returns the record just written, and right after delete_metadata(data_type,
\* date, symbol) list_ingestions returns no record of that date and symbol.
C29_LedgerRoundTrip ==
    /\ ret.op = "record_ingestion" =>
          get_ingestion_status(ret.file[2], ret.file[3], ret.file[4]) = ledger[ret.file]
    /\ ret.op = "delete_metadata" =>
          LET listed == list_ingestions(ret.file[2], NoDate, NoDate, None, None)
          IN  ~listed.raised =>
                \A n \in 1..Len(listed.value) :
                    ~(listed.value[n].date = ret.file[3] /\ listed.value[n].symbol = ret.file[4])


\* C30: a call that records a successful ingestion or sets a watermark for one
\* (dataset, scope, layer) leaves the value get_watermark returns unchanged
\* for every other scope of the dataset, the unscoped one (symbol None)
\* included, and for every other layer.
C30_WatermarkIsolation ==
    [][((ret'.op = "record_ingestion" /\ ret'.status = "success") \/ ret'.op = "set_watermark") =>
        \A data_type \in DataTypes, symbol \in Symbols, layer \in Layers :
            (ret'.file[1] = layer /\ ret'.file[2] = data_type
                                  /\ ret'.file[Len(ret'.file)] = symbol) =>
                \A s \in Symbols, l \in Layers :
                    (s # symbol \/ l # layer) =>
                        get_watermark(data_type, s, l)' = get_watermark(data_type, s, l)]_vars

=============================================================================
